---- MODULE Spec2Model ----
(***************************************************************************)
(* The authentication core of meetai: the server actions of                *)
(* src/app/actions/auth.ts over the tables of db/schema.ts.                *)
(*                                                                         *)
(* Every server action is a sequence of awaited steps.  Between two        *)
(* awaits other requests run, so each store operation is one action of     *)
(* the model and the position of a request is kept in calls[p].pc.  A      *)
(* store operation may throw (connection fault); the enclosing try/catch   *)
(* of the action then decides the result.                                  *)
(***************************************************************************)
EXTENDS Integers, Sequences, FiniteSets, TLC

\* ---------------------------------------------------------------- bounds
\* requests in flight at one time
NProcs == 2
\* requests made in one behaviour
MaxCalls == 3
\* hours the clock runs
MaxTime == 1

\* ------------------------------------------------------ program constants
\* bcrypt.hash(password, 10)
BcryptCost == 10
\* addHours(new Date(), 1); the clock of the model counts hours
TokenLifetimeHours == 1

Procs == 1..NProcs

\* the email field of a form
EmailInputs == {"ann@x.com", "bob@x.com", "not-an-email"}

\* the password fields of a form
PasswordInputs == {"longenough1", "newpass123", "short"}

\* String.prototype.length of the password inputs
Length(s) == IF s = "short" THEN 5 ELSE IF s = "newpass123" THEN 10 ELSE 11

\* uuidv4() returns a value it never returned before: the k-th call returns k
Uuids == 1..MaxCalls

\* a uuid that uuidv4() never returns in the behaviour
UnknownUuid == MaxCalls + 1

\* the token field of a form: one of the n uuids generated so far, a uuid
\* that is never generated, or 0 for a string that is no uuid
TokenInputs(n) == {0, UnknownUuid} \cup 1..n

VARIABLES usersTable, nextUserId, passwordResetTokensTable, uuidCount, now,
          senderEmail, cookieStore, calls, returned, ncalls, hist,
          sessionsTable, nonceCount

vars == <<usersTable, nextUserId, passwordResetTokensTable, uuidCount, now,
          senderEmail, cookieStore, calls, returned, ncalls, hist,
          sessionsTable, nonceCount>>

\* ------------------------------------------------------------ validation
IsEmail(e) == e \in {"ann@x.com", "bob@x.com"}

MinLength(s, n) == Length(s) >= n

IsUuid(t) == t >= 1

signupSchema(email, password) == IsEmail(email) /\ MinLength(password, 8)

signinSchema(email, password) == IsEmail(email) /\ MinLength(password, 1)

forgotPasswordSchema(email) == IsEmail(email)

resetPasswordSchemaOff(token, password, confirmPassword) == TRUE

resetPasswordSchema(token, password, confirmPassword) ==
    /\ IsUuid(token)
    /\ MinLength(password, 8)
    /\ MinLength(confirmPassword, 8)
    /\ password = confirmPassword

\* --------------------------------------------------------------- results
NoUser == {}

Result(success, field, msg, userId, user) ==
    [success |-> success, field |-> field, msg |-> msg, userId |-> userId, user |-> user]

NoResult == Result(FALSE, "", "", 0, NoUser)

ValidationError == Result(FALSE, "fieldErrors", "validation", 0, NoUser)

EmailExists == Result(FALSE, "email", "Email already exists", 0, NoUser)

SignupUnexpected == Result(FALSE, "_form", "An unexpected error occurred.", 0, NoUser)

SignupSuccess(id) == Result(TRUE, "", "", id, NoUser)

InvalidCredentials == Result(FALSE, "email", "Invalid credentials", 0, NoUser)

SigninUnexpected ==
    Result(FALSE, "_form", "An unexpected error occurred during signin.", 0, NoUser)

Redirected(url) == Result(TRUE, "redirect", url, 0, NoUser)

CurrentUser(rows) == Result(rows # {}, "", "", 0, rows)

SignoutSuccess == Result(TRUE, "", "", 0, NoUser)

\* no return value: an exception left the action
Raised == Result(FALSE, "throw", "uncaught exception", 0, NoUser)

GenericMessage ==
    Result(TRUE, "", "If an account with that email exists, we sent a password reset link.",
           0, NoUser)

ForgotNoAccountLeak == Result(FALSE, "email", "No account with that email", 0, NoUser)

ForgotNoUserResult == GenericMessage

ForgotUnexpected == Result(FALSE, "_form", "An unexpected error occurred.", 0, NoUser)

InvalidToken == Result(FALSE, "_form", "Invalid or expired reset token.", 0, NoUser)

ResetUnexpected == Result(FALSE, "_form", "An unexpected error occurred.", 0, NoUser)

ResetSuccess ==
    Result(TRUE, "", "Your password has been successfully reset.", 0, NoUser)

StateMismatch ==
    Result(FALSE, "error", "Authentication failed (state or code verifier mismatch).",
           0, NoUser)

EmailMissing ==
    Result(FALSE, "error", "Authentication failed (email missing from Google).", 0, NoUser)

DatabaseError == Result(FALSE, "error", "database error", 0, NoUser)

CallbackFailed == Result(FALSE, "error", "Authentication failed.", 0, NoUser)

CallbackSuccess(id) == Result(TRUE, "", "", id, NoUser)

\* ------------------------------------------------------- password hasher
NullHash == <<>>

\* the salt bcrypt draws; its value decides nothing here, so one stands for all
Salts == {"N9qo8uLOickgx2ZMRZoMye"}

\* bcrypt.hash: the digest carries the cost and the salt it was made with
Hash(pw, salt) == <<"$2b$", BcryptCost, salt, pw>>

CompareAny(pw, digest) == digest # NullHash

\* bcrypt.compare: hashes the candidate again with the digest's own salt
Compare(pw, digest) == digest # NullHash /\ Hash(pw, digest[3]) = digest

\* ------------------------------------------------- session token strings
Digits == <<"0", "1", "2", "3", "4", "5", "6", "7", "8", "9">>

IsDigit(c) == \E i \in 1..10 : Digits[i] = c

DigitValue(c) == (CHOOSE i \in 1..10 : Digits[i] = c) - 1

RECURSIVE toString(_)
\* Number.prototype.toString of a non-negative integer
toString(n) == IF n < 10 THEN <<Digits[n + 1]>>
               ELSE Append(toString(n \div 10), Digits[(n % 10) + 1])

RECURSIVE SkipSpace(_)
SkipSpace(s) == IF s # <<>> /\ Head(s) = " " THEN SkipSpace(Tail(s)) ELSE s

RECURSIVE LeadingDigits(_)
LeadingDigits(s) == IF s # <<>> /\ IsDigit(Head(s))
                    THEN <<Head(s)>> \o LeadingDigits(Tail(s))
                    ELSE <<>>

RECURSIVE DigitsValue(_)
DigitsValue(ds) == IF ds = <<>> THEN 0
                   ELSE 10 * DigitsValue(SubSeq(ds, 1, Len(ds) - 1))
                        + DigitValue(ds[Len(ds)])

\* a Number: NaN, or an integer
NaN == [nan |-> TRUE, value |-> 0]

Number(n) == [nan |-> FALSE, value |-> n]

isNaN(x) == x.nan

\* parseInt(s, 10): leading blanks, an optional sign, then the longest run of
\* digits; what follows the digits is ignored; NaN when there is no digit
parseInt(s) ==
    LET t == SkipSpace(s)
        neg == t # <<>> /\ Head(t) = "-"
        u == IF t # <<>> /\ Head(t) \in {"-", "+"} THEN Tail(t) ELSE t
        ds == LeadingDigits(u)
    IN IF ds = <<>> THEN NaN
       ELSE Number(IF neg THEN 0 - DigitsValue(ds) ELSE DigitsValue(ds))

\* no cookie of that name in the request
NoCookie == <<>>

\* a browser that holds none of the cookies the actions use
NoCookies ==
    [session |-> NoCookie, google_oauth_state |-> NoCookie,
     google_code_verifier |-> NoCookie, auth_session |-> NoCookie]

\* values a client can put in its own session cookie without ever signing in
ClientCookieValues ==
    {toString(i) : i \in 1..MaxCalls} \cup {<<"1", "x">>, <<"x">>, <<"-", "1">>}

\* ----------------------------------------------------------------- store
\* usersTable.email is .unique(): the insert is refused when a row has it
EmailUniqueOff(rows, email) == TRUE

EmailUnique(rows, email) == \A u \in rows : u.email # email

\* select().from(usersTable).where(eq(usersTable.email, email)).limit(1)
SelectAnyByEmail(rows, email) == rows

SelectByEmail(rows, email) == {u \in rows : u.email = email}

\* select().from(usersTable).where(eq(usersTable.id, id)).limit(1)
SelectById(rows, id) == {u \in rows : u.id = id}

\* the row signup inserts
NewEmailUser(id, email, digest) ==
    [id |-> id, email |-> email, hashed_password |-> digest,
     email_verified |-> FALSE, provider |-> "email", provider_id |-> ""]

NewGoogleUserWithoutProviderId(id, email, sub) ==
    [id |-> id, email |-> email, hashed_password |-> NullHash,
     email_verified |-> TRUE, provider |-> "google", provider_id |-> ""]

\* the row auth.createUser is given for a Google profile: no password hash
NewGoogleUser(id, email, sub) ==
    [id |-> id, email |-> email, hashed_password |-> NullHash,
     email_verified |-> TRUE, provider |-> "google", provider_id |-> sub]

\* the id auth.createSession draws for the k-th session: a random string that
\* was not drawn before
SessionId(k) == <<"s">> \o toString(k)

\* the row auth.createSession inserts into sessionsTable
NewSession(rows, userId) == [id |-> SessionId(Cardinality(rows) + 1), userId |-> userId]

SelectAnyUser(rows, sub) == rows

\* select().from(usersTable).where(eq(usersTable.provider_id, googleId)).limit(1)
SelectByProviderId(rows, sub) == {u \in rows : u.provider_id = sub}

ProviderIdUniqueOff(rows, sub) == TRUE

\* usersTable.provider_id is .unique(); rows without a provider id (null)
\* never collide
ProviderIdUnique(rows, sub) == sub = "" \/ \A u \in rows : u.provider_id # sub

InsertRefusedByProviderIdOnly(rows, row) == ~ProviderIdUnique(rows, row.provider_id)

\* the unique indexes of usersTable refuse the row
InsertRefused(rows, row) ==
    ~EmailUnique(rows, row.email) \/ ~ProviderIdUnique(rows, row.provider_id)

\* update(usersTable).set({hashed_password}).where(eq(usersTable.id, id))
\* password_reset_tokens.token is notNull() and nothing more: no unique index
\* and no primary key, so the store refuses no token row for its token value
TokenInsertRefused(rows, row) == FALSE

UpdatePasswordOfAll(rows, id, digest) ==
    {[u EXCEPT !.hashed_password = digest] : u \in rows}

UpdatePassword(rows, id, digest) ==
    {IF u.id = id THEN [u EXCEPT !.hashed_password = digest] ELSE u : u \in rows}

SelectValidTokenInclusive(rows, t, at) == {r \in rows : r.token = t /\ r.expiresAt >= at}

\* select().from(passwordResetTokensTable)
\*   .where(and(eq(token, t), gt(expiresAt, at))).limit(1)
SelectValidToken(rows, t, at) == {r \in rows : r.token = t /\ r.expiresAt > at}

DeleteUserTokensOff(rows, userId) == rows

\* delete(passwordResetTokensTable).where(eq(userId, id))
DeleteUserTokens(rows, userId) == {r \in rows : r.userId # userId}

DeleteTokenOff(rows, t) == rows

\* delete(passwordResetTokensTable).where(eq(token, t))
DeleteToken(rows, t) == {r \in rows : r.token # t}

\* ----------------------------------------------------------------- calls
\* A request: the action (op), where it stands (pc), its arguments and locals,
\* its return value (res), and a record of what it did: fault (a store
\* operation threw under it), wrote (it updated a password hash, or it
\* inserted a user), deleted (it
\* ran its delete of the token row, or of its user's token rows), sent (what the email sender did), late
\* (it was invoked with a token some resetPassword had already succeeded
\* with; for the forgotPassword: the token value it drew was in the table
\* when it came to insert its row), stale (it was invoked with a token a later completed forgotPassword
\* had superseded), prior (the tokens issued when it was invoked), check (what
\* signin found for its credentials), oracle (whether the password was the one
\* last set, when signin ran with no other request in flight), revoked (it
\* presented a session cookie value that a signout had removed; for the
\* resetPassword, check tells what its form was and then, once the token has
\* been looked up, what the token was at that time; for the
\* Google callback, check tells whether the profile's email was another
\* user's when the user was to be created; for the forgotPassword, check tells
\* what rows its user had when it returned).  For the
\* Google flow: the query's code and state, the request's storedState and
\* storedCodeVerifier cookies, the subject id (sub) of the profile, the state
\* the authorization URL carries (urlState) and its PKCE challenge, the code
\* verifier given to the provider with the code (verifier), and called (the
\* identity provider was called); for a callback, late tells that its code and state were those
\* of a callback that had passed line 355, stale that this callback had
\* returned as well (no signInWithGoogle invoked since, in both), and revoked
\* that its state was the cookie state of an initiate before the most recent
\* one.  For a request that goes through the middleware: its pathname and the
\* response.
IdleCall ==
    [op |-> "idle", pc |-> "idle", email |-> "", password |-> "", token |-> 0,
     userId |-> 0, expiresAt |-> 0, cookie |-> NoCookie, res |-> NoResult,
     fault |-> FALSE, wrote |-> FALSE, deleted |-> FALSE, sent |-> "none",
     late |-> FALSE, stale |-> FALSE, prior |-> {},
     check |-> "", oracle |-> "none", revoked |-> FALSE,
     code |-> "", state |-> NoCookie, storedState |-> NoCookie,
     storedCodeVerifier |-> NoCookie, sub |-> "", urlState |-> NoCookie,
     challenge |-> NoCookie, verifier |-> NoCookie,
     called |-> FALSE, pathname |-> <<>>, response |-> [redirect |-> "", callbackUrl |-> <<>>]]

\* a slot that holds no request
Free(q) == calls[q].pc = "idle"

\* requests are anonymous: a new one takes the first free slot
FreeSlot(p) ==
    /\ Free(p)
    /\ \A q \in Procs : q < p => ~Free(q)
    /\ ncalls < MaxCalls

\* request p goes on as c; when c has returned, its slot is free again and c
\* is the response last delivered
Settle(p, c) ==
    /\ calls' = [calls EXCEPT ![p] = IF c.pc = "done" THEN IdleCall ELSE c]
    /\ returned' = IF c.pc = "done" THEN c ELSE returned

Start(op, pc) == [IdleCall EXCEPT !.op = op, !.pc = pc]

\* the action returns res: its locals are gone; the email it was called for,
\* its result and the record of what it did remain
Done(c, res) ==
    [c EXCEPT !.pc = "done", !.res = res, !.password = "", !.token = 0,
              !.userId = 0, !.expiresAt = 0, !.prior = {}]

\* a store operation threw and the action's catch returns res
Faulted(c, res) == [Done(c, res) EXCEPT !.fault = TRUE]

At(p, op, pc) == calls[p].op = op /\ calls[p].pc = pc

\* The history the claims speak of: the session cookie values signin issued
\* and for whom, the successful signups per email, the successful resets per
\* token, the tokens whose forgotPassword has returned, and those superseded;
\* the password each user was last given by a successful signup or a
\* successful resetPassword (lastSet), and the session cookie values that a
\* signout removed from the browser and no signin has issued since (signedOut);
\* the code and state of the callbacks that passed line 355 (passed) and of
\* those among them that have returned (passedDone) since the last
\* signInWithGoogle was invoked, the two cookie values of the most recent
\* signInWithGoogle that set them (latest), and the cookie states of the
\* initiates before it (earlier); for each signInWithGoogle that set its
\* cookies, the code verifier it stored and the challenge its URL carried (urls).
InitHist ==
    [issued |-> {},
     signupOk |-> [e \in {x \in EmailInputs : IsEmail(x)} |-> 0],
     resetOk |-> [t \in Uuids |-> 0],
     issuedDone |-> {},
     superseded |-> {},
     lastSet |-> {},
     signedOut |-> {},
     passed |-> {},
     passedDone |-> {},
     latest |-> <<NoCookie, NoCookie>>,
     earlier |-> {},
     urls |-> {}]

\* a signInWithGoogle that set codeVerifier as its cookie built an
\* authorization URL that carries challenge
UrlIssued(h, codeVerifier, challenge) ==
    [h EXCEPT !.urls = @ \cup {<<codeVerifier, challenge>>}]

\* a signInWithGoogle was invoked: the callbacks that passed line 355 before it
\* no longer count as "with no signInWithGoogle in between"
InitiateInvoked(h) == [h EXCEPT !.passed = {}, !.passedDone = {}]

\* a signInWithGoogle set its two cookies: its values are the most recent
\* ones, and the state of the initiate before it is an earlier one
InitiateSet(h, state, codeVerifier) ==
    [InitiateInvoked(h) EXCEPT !.latest = <<state, codeVerifier>>,
                               !.earlier = @ \cup ({h.latest[1]} \ {NoCookie})]

\* a callback that passed line 355 with this code and state
CallbackPassed(h, c) == [h EXCEPT !.passed = @ \cup {<<c.code, c.state>>}]

\* a callback has returned: if it passed line 355 and no signInWithGoogle was
\* invoked since, its code and state are those of a finished callback
CallbackReturned(h, c) ==
    [h EXCEPT !.passedDone = @ \cup ({<<c.code, c.state>>} \cap h.passed)]

\* the history after a successful call gave user id the password pw
PasswordSet(h, id, pw) ==
    [h EXCEPT !.lastSet = {e \in @ : e[1] # id} \cup {<<id, pw>>}]

\* what signin's credential check meets: no user with the email, a user
\* without a password hash, a hash made from another password, or a hash made
\* from this password
CredentialCase(rows, email, password) ==
    LET users == {u \in rows : u.email = email} IN
    IF users = {} THEN "nouser"
    ELSE IF \A u \in users : u.hashed_password = NullHash THEN "nohash"
    ELSE IF \E u \in users : u.hashed_password # NullHash /\ u.hashed_password[4] = password
         THEN "match"
    ELSE "mismatch"

\* what the form of a resetPassword is: "malformed" when the token is no uuid,
\* "mismatch" when the two passwords differ, "short" when they are too short,
\* "ok" otherwise
ResetInputCase(token, password, confirmPassword) ==
    IF token < 1 THEN "malformed"
    ELSE IF password # confirmPassword THEN "mismatch"
    ELSE IF Length(password) < 8 THEN "short"
    ELSE "ok"

\* what the table holds for the user of forgotPassword call c: "exact" when
\* the row c stored is the user's only row, "extra" when the user has other
\* rows beside it, "missing" when the row c stored is not there
TokenRowsCase(rows, c) ==
    LET own == [token |-> c.token, userId |-> c.userId, expiresAt |-> c.expiresAt]
        mine == {r \in rows : r.userId = c.userId}
    IN IF mine = {own} THEN "exact"
       ELSE IF own \in mine THEN "extra" ELSE "missing"


\* what the token of a resetPassword is at the time at: in no row, in a row
\* that expires later, in a row that expires at this very time, or in a row
\* that expired before
TokenCase(rows, t, at) ==
    IF \A r \in rows : r.token # t THEN "absent"
    ELSE IF \E r \in rows : r.token = t /\ at < r.expiresAt THEN "valid"
    ELSE IF \E r \in rows : r.token = t /\ at = r.expiresAt THEN "due"
    ELSE "expired"

\* what a finished forgotPassword that stored token t for user id adds to the
\* history: t is issued, and it supersedes the tokens issued to the same user
\* by the calls that had returned before this one began
Issued(h, c) ==
    [h EXCEPT !.issuedDone = @ \cup {<<c.token, c.userId>>},
              !.superseded = @ \cup {e[1] : e \in {x \in c.prior : x[2] = c.userId}}]

StoreUnchanged == UNCHANGED <<usersTable, nextUserId, passwordResetTokensTable, uuidCount>>

EnvUnchanged == UNCHANGED <<now, senderEmail, sessionsTable, nonceCount>>

\* redirect() of next/navigation raises NEXT_REDIRECT; raised inside a try
\* block it is handled by that block's catch, whose return is the result
TryRedirect(url, caught) == caught

\* ----------------------------------------------------------- Google flow
\* generateState(), generateCodeVerifier() and the state the provider library
\* puts in its URL are random draws: the k-th draw is a value not drawn before
Nonce(k) == <<"n">> \o toString(k)

\* the endpoint googleOAuth.getAuthorizationUrl() builds its URL for
AuthorizationUrl == "https://accounts.google.com/o/oauth2/v2/auth"

\* line 325: getAuthorizationUrl() is called without arguments, so the URL is
\* built without the codeVerifier of line 324 and carries no challenge of it
UrlChallenge(codeVerifier) == NoCookie

\* line 365: validateCallback is given the code alone; the verifier read from
\* the cookie at line 353 is not handed to the provider
ExchangeVerifier(storedCodeVerifier) == NoCookie

GoogleFailedUrl == "/signin?error=google_oauth_failed"

\* the code of the callback's query: absent, or a code
CodeInputs == {"", "code-1"}

\* the state of the callback's query: absent, a made-up value, the value of
\* the browser's state cookie, or the state of the last authorization URL
\* (the n-th draw)
StateInputs(jar, n) ==
    {NoCookie, <<"x">>, jar.google_oauth_state}
        \cup (IF n > 0 THEN {Nonce(n), Nonce(1)} ELSE {})

\* the subject ids the provider answers with
Subs == {"g-1", "g-2"}

\* the emails the provider answers with; "" is a profile without email
ProfileEmails == {"", "ann@x.com", "bob@x.com", "bob@y.com"}

StateValidWithoutCompare(code, state, storedState, storedCodeVerifier) ==
    ~(code = "" \/ state = NoCookie \/ storedState = NoCookie
        \/ storedCodeVerifier = NoCookie)

\* the negation of the condition of line 355
StateValid(code, state, storedState, storedCodeVerifier) ==
    ~(code = "" \/ state = NoCookie \/ storedState = NoCookie
        \/ storedCodeVerifier = NoCookie \/ state # storedState)

NoEmailNever(userEmail) == FALSE

\* line 370: !userEmail
NoEmail(userEmail) == userEmail = ""

\* cookies().delete of the two transient cookies
DeleteOAuthCookiesOff(jar) == jar

DeleteOAuthCookies(jar) ==
    [jar EXCEPT !.google_oauth_state = NoCookie, !.google_code_verifier = NoCookie]

SetOAuthCookiesIfAbsent(jar, state, codeVerifier) ==
    [jar EXCEPT !.google_oauth_state = IF @ = NoCookie THEN state ELSE @,
                !.google_code_verifier = IF @ = NoCookie THEN codeVerifier ELSE @]

SetOAuthCookies(jar, state, codeVerifier) ==
    [jar EXCEPT !.google_oauth_state = state, !.google_code_verifier = codeVerifier]

\* auth.createSessionCookie(session.id): Lucia's session cookie, auth_session
SetSessionCookie(jar, id) == [jar EXCEPT !.auth_session = id]

\* lines 157-186 as a function of the request's cookies and the users
CurrentUserOf(jar, rows) ==
    IF jar.session = NoCookie THEN NoUser
    ELSE IF isNaN(parseInt(jar.session)) THEN NoUser
    ELSE SelectById(rows, parseInt(jar.session).value)

\* ------------------------------------------------------------ middleware
protectedRoutes == {<<"/dashboard">>}

\* String.prototype.startsWith
StartsWith(s, prefix) == Len(s) >= Len(prefix) /\ SubSeq(s, 1, Len(prefix)) = prefix

\* NextResponse.next()
NextResponse == [redirect |-> "", callbackUrl |-> <<>>]

\* NextResponse.redirect(signInUrl)
RedirectResponse(url, pathname) == [redirect |-> url, callbackUrl |-> pathname]

\* a path is a sequence of pieces of text; the request's session cookie
\* alone decides isAuthenticated
middleware(pathname, jar) ==
    LET session == jar.session
        isAuthenticated == session # NoCookie
        isProtectedRoute == \E route \in protectedRoutes : StartsWith(pathname, route)
    IN IF isProtectedRoute /\ ~isAuthenticated
       THEN RedirectResponse("/signin", pathname)
       ELSE NextResponse

\* config.matcher: Next.js runs the middleware for the paths the matcher
\* matches; a matcher without a wildcard matches that one path
matcher == {<<"/dashboard">>}

\* the paths requested: /dashboard, /dashboard/settings, /signin and /
PathInputs == {<<"/dashboard">>, <<"/dashboard", "/settings">>, <<"/signin">>, <<"/">>}

\* what a request for pathname with the cookies of jar is answered with
\* before it reaches a page
Guard(pathname, jar) ==
    IF pathname \in matcher THEN middleware(pathname, jar) ELSE NextResponse

\* ------------------------------------------------------------------ Init
\* the state of a fresh deployment: empty tables, no cookies
InitAccount ==
    /\ usersTable = {}
    /\ nextUserId = 1
    /\ passwordResetTokensTable = {}
    /\ uuidCount = 0
    /\ now = 0
    /\ senderEmail = TRUE
    /\ cookieStore = NoCookies
    /\ sessionsTable = {}
    /\ nonceCount = 0
    /\ calls = [p \in Procs |-> IdleCall]
    /\ returned = IdleCall
    /\ ncalls = 0
    /\ hist = InitHist

\* ---------------------------------------------------------------- signup
\* lines 71-80: parse the form, return the field errors when it is invalid
signup_validate(p) ==
    /\ FreeSlot(p)
    /\ \E email \in EmailInputs, password \in PasswordInputs :
         LET c == [Start("signup", "su_select") EXCEPT !.email = email, !.password = password]
         IN Settle(p,
                IF signupSchema(email, password) THEN c
                ELSE Done(Start("signup", "su_select"), ValidationError))
    /\ ncalls' = ncalls + 1
    /\ StoreUnchanged /\ EnvUnchanged
    /\ UNCHANGED <<cookieStore, hist>>

\* lines 83-86: the existence pre-check
signup_select(p) ==
    /\ At(p, "signup", "su_select")
    /\ \E fault \in BOOLEAN :
         Settle(p,
            IF fault THEN Faulted(calls[p], SignupUnexpected)
            ELSE IF SelectByEmail(usersTable, calls[p].email) # {}
                 THEN Done(calls[p], EmailExists)
            ELSE [calls[p] EXCEPT !.pc = "su_insert"])
    /\ StoreUnchanged /\ EnvUnchanged
    /\ UNCHANGED <<cookieStore, ncalls, hist>>

\* lines 88-108: hash, insert, return the new id; a refused insert throws into
\* the catch.  The identity column draws its value before the unique index is
\* checked, so a refused insert still uses up an id.  An insert that succeeds
\* returns its row, so the branch of line 98 is never taken.
signup_insert(p) ==
    /\ At(p, "signup", "su_insert")
    /\ LET c == calls[p] IN
       \E fault \in BOOLEAN, salt \in Salts :
         IF fault
         THEN /\ Settle(p, Faulted(c, SignupUnexpected))
              /\ UNCHANGED <<usersTable, nextUserId, hist>>
         ELSE IF ~EmailUnique(usersTable, c.email)
         THEN /\ Settle(p, Done(c, SignupUnexpected))
              /\ nextUserId' = nextUserId + 1
              /\ UNCHANGED <<usersTable, hist>>
         ELSE /\ usersTable' = usersTable \cup
                     {NewEmailUser(nextUserId, c.email, Hash(c.password, salt))}
              /\ nextUserId' = nextUserId + 1
              /\ Settle(p,
                     Done(c, SignupSuccess(nextUserId)))
              /\ hist' = PasswordSet([hist EXCEPT !.signupOk[c.email] = @ + 1],
                                      nextUserId, c.password)
    /\ EnvUnchanged
    /\ UNCHANGED <<passwordResetTokensTable, uuidCount, cookieStore, ncalls>>

\* ---------------------------------------------------------------- signin
\* lines 111-120
signin_validate(p) ==
    /\ FreeSlot(p)
    /\ \E email \in EmailInputs, password \in PasswordInputs :
         LET c == [Start("signin", "si_select") EXCEPT !.email = email, !.password = password]
         IN Settle(p,
                IF signinSchema(email, password) THEN c
                ELSE Done(Start("signin", "si_select"), ValidationError))
    /\ ncalls' = ncalls + 1
    /\ StoreUnchanged /\ EnvUnchanged
    /\ UNCHANGED <<cookieStore, hist>>

\* lines 123-136: look the user up and compare the password
signin_select(p) ==
    /\ At(p, "signin", "si_select")
    /\ LET users == SelectByEmail(usersTable, calls[p].email)
           c == [calls[p] EXCEPT
                    !.check = CredentialCase(usersTable, calls[p].email, calls[p].password),
                    !.oracle = IF \E q \in Procs \ {p} : ~Free(q) THEN "none"
                               ELSE IF \E u \in users :
                                          <<u.id, calls[p].password>> \in hist.lastSet
                                    THEN "pass"
                               ELSE "fail"]
       IN \E fault \in BOOLEAN :
            Settle(p,
               IF fault THEN Faulted(calls[p], SigninUnexpected)
               ELSE IF users = {} THEN Done(c, InvalidCredentials)
               ELSE LET user == CHOOSE u \in users : TRUE IN
                    IF user.hashed_password = NullHash THEN Done(c, InvalidCredentials)
                    ELSE IF ~Compare(c.password, user.hashed_password)
                         THEN Done(c, InvalidCredentials)
                    ELSE [c EXCEPT !.pc = "si_cookie", !.userId = user.id])
    /\ StoreUnchanged /\ EnvUnchanged
    /\ UNCHANGED <<cookieStore, ncalls, hist>>

\* lines 138-153: the session token is the user id in decimal; the cookie is
\* set and redirect('/dashboard') is called inside the try block
signin_set_cookie(p) ==
    /\ At(p, "signin", "si_cookie")
    /\ LET c == calls[p]
           sessionToken == toString(c.userId)
       IN /\ cookieStore' = [cookieStore EXCEPT !.session = sessionToken]
          /\ hist' = [hist EXCEPT !.issued = @ \cup {<<sessionToken, c.userId>>},
                                   !.signedOut = @ \ {sessionToken}]
          /\ Settle(p,
                Done([c EXCEPT !.cookie = sessionToken],
                     TryRedirect("/dashboard", SigninUnexpected)))
    /\ StoreUnchanged /\ EnvUnchanged
    /\ UNCHANGED ncalls

\* -------------------------------------------------------- getCurrentUser
\* lines 157-172: read the request's session cookie and parse it.  The cookie
\* travels in the request, so its value is the browser's or one the client chose.
getCurrentUser_read(p) ==
    /\ FreeSlot(p)
    /\ \E sessionToken \in {cookieStore.session} \cup ClientCookieValues :
         LET c == [Start("getCurrentUser", "gc_select") EXCEPT
                      !.cookie = sessionToken,
                      !.revoked = (sessionToken \in hist.signedOut)]
             userId == parseInt(sessionToken)
         IN Settle(p,
               IF sessionToken = NoCookie THEN Done(c, CurrentUser(NoUser))
               ELSE IF isNaN(userId) THEN Done(c, CurrentUser(NoUser))
               ELSE [c EXCEPT !.userId = userId.value])
    /\ ncalls' = ncalls + 1
    /\ StoreUnchanged /\ EnvUnchanged
    /\ UNCHANGED <<cookieStore, hist>>

\* lines 174-186: the user whose id the cookie parsed to, or null
getCurrentUser_select(p) ==
    /\ At(p, "getCurrentUser", "gc_select")
    /\ \E fault \in BOOLEAN :
         Settle(p,
            IF fault THEN Faulted(calls[p], CurrentUser(NoUser))
            ELSE Done(calls[p], CurrentUser(SelectById(usersTable, calls[p].userId))))
    /\ StoreUnchanged /\ EnvUnchanged
    /\ UNCHANGED <<cookieStore, ncalls, hist>>

\* --------------------------------------------------------------- signout
\* lines 190-194: no try block, so when cookies() or the delete throws, the
\* exception leaves the action
signout(p) ==
    /\ FreeSlot(p)
    /\ \E fault \in BOOLEAN :
         IF fault
         THEN /\ Settle(p, Faulted(Start("signout", "done"), Raised))
              /\ UNCHANGED <<cookieStore, hist>>
         ELSE /\ cookieStore' = [cookieStore EXCEPT !.session = NoCookie]
              /\ Settle(p, Done(Start("signout", "done"), SignoutSuccess))
              /\ hist' = [hist EXCEPT
                            !.signedOut = @ \cup ({cookieStore.session} \ {NoCookie})]
    /\ ncalls' = ncalls + 1
    /\ StoreUnchanged /\ EnvUnchanged

NextAccount ==
    \/ \E p \in Procs : signup_validate(p)
    \/ \E p \in Procs : signup_select(p)
    \/ \E p \in Procs : signup_insert(p)
    \/ \E p \in Procs : signin_validate(p)
    \/ \E p \in Procs : signin_select(p)
    \/ \E p \in Procs : signin_set_cookie(p)
    \/ \E p \in Procs : getCurrentUser_read(p)
    \/ \E p \in Procs : getCurrentUser_select(p)
    \/ \E p \in Procs : signout(p)

SpecAccount == InitAccount /\ [][NextAccount]_vars

\* a deployment with two accounts: one that signup created, and one that the
\* Google callback created from another browser (it has no password hash)
InitSession ==
    /\ \E salt \in Salts :
         usersTable = {NewEmailUser(1, "ann@x.com", Hash("longenough1", salt)),
                       NewGoogleUser(2, "bob@x.com", "g-1")}
    /\ nextUserId = 3
    /\ passwordResetTokensTable = {}
    /\ uuidCount = 0
    /\ now = 0
    /\ senderEmail = TRUE
    /\ cookieStore = NoCookies
    /\ sessionsTable = {NewSession({}, 2)}
    /\ nonceCount = 0
    /\ calls = [p \in Procs |-> IdleCall]
    /\ returned = IdleCall
    /\ ncalls = 0
    /\ hist = PasswordSet(InitHist, 1, "longenough1")

\* signing in and out, and asking who is signed in, with both accounts there
NextSession ==
    \/ \E p \in Procs : signin_validate(p)
    \/ \E p \in Procs : signin_select(p)
    \/ \E p \in Procs : signin_set_cookie(p)
    \/ \E p \in Procs : getCurrentUser_read(p)
    \/ \E p \in Procs : getCurrentUser_select(p)
    \/ \E p \in Procs : signout(p)

SpecSession == InitSession /\ [][NextSession]_vars

\* ------------------------------------------------------ a page request
\* part_006 lines 9-33: the browser requests a path with the cookies it holds
middleware_request(p) ==
    /\ FreeSlot(p)
    /\ \E pathname \in PathInputs :
         Settle(p,
            Done([Start("middleware", "done") EXCEPT
                     !.pathname = pathname,
                     !.cookie = cookieStore.session,
                     !.response = Guard(pathname, cookieStore)],
                 NoResult))
    /\ ncalls' = ncalls + 1
    /\ StoreUnchanged /\ EnvUnchanged
    /\ UNCHANGED <<cookieStore, hist>>

\* page requests of a browser that signs in and out
NextGuard ==
    \/ \E p \in Procs : signin_validate(p)
    \/ \E p \in Procs : signin_select(p)
    \/ \E p \in Procs : signin_set_cookie(p)
    \/ \E p \in Procs : signout(p)
    \/ \E p \in Procs : middleware_request(p)

SpecGuard == InitSession /\ [][NextGuard]_vars

\* a deployment in which signup has created one account, and no reset has
\* been asked for yet
InitReset ==
    /\ \E salt \in Salts :
         usersTable = {NewEmailUser(1, "ann@x.com", Hash("longenough1", salt))}
    /\ nextUserId = 2
    /\ passwordResetTokensTable = {}
    /\ uuidCount = 0
    /\ now = 0
    /\ senderEmail \in BOOLEAN
    /\ cookieStore = NoCookies
    /\ sessionsTable = {}
    /\ nonceCount = 0
    /\ calls = [p \in Procs |-> IdleCall]
    /\ returned = IdleCall
    /\ ncalls = 0
    /\ hist = PasswordSet(InitHist, 1, "longenough1")

\* -------------------------------------------------------- forgotPassword
\* lines 197-206
forgotPassword_validate(p) ==
    /\ FreeSlot(p)
    /\ \E email \in EmailInputs :
         LET c == [Start("forgotPassword", "fp_select") EXCEPT
                      !.email = email, !.prior = hist.issuedDone]
         IN Settle(p,
                IF forgotPasswordSchema(email) THEN c
                ELSE Done(Start("forgotPassword", "fp_select"), ValidationError))
    /\ ncalls' = ncalls + 1
    /\ StoreUnchanged /\ EnvUnchanged
    /\ UNCHANGED <<cookieStore, hist>>

\* lines 209-218: look the user up; for an account, draw the token (uuidv4
\* never repeats a value) and fix its expiry from the clock
forgotPassword_select(p) ==
    /\ At(p, "forgotPassword", "fp_select")
    /\ LET c == calls[p]
           users == SelectByEmail(usersTable, c.email)
       IN \E fault \in BOOLEAN :
            IF fault
            THEN /\ Settle(p, Faulted(c, ForgotUnexpected))
                 /\ UNCHANGED uuidCount
            ELSE IF users = {}
            THEN /\ Settle(p, Done(c, ForgotNoUserResult))
                 /\ UNCHANGED uuidCount
            ELSE /\ Settle(p,
                        [c EXCEPT !.pc = "fp_delete",
                                  !.userId = (CHOOSE u \in users : TRUE).id,
                                  !.token = uuidCount + 1,
                                  !.expiresAt = now + TokenLifetimeHours])
                 /\ uuidCount' = uuidCount + 1
    /\ EnvUnchanged
    /\ UNCHANGED <<usersTable, nextUserId, passwordResetTokensTable, cookieStore, ncalls, hist>>

\* lines 209-218 when uuidv4, which draws its bits at random, returns a value
\* it has returned before
forgotPassword_select_redraw(p) ==
    /\ At(p, "forgotPassword", "fp_select")
    /\ LET c == calls[p]
           users == SelectByEmail(usersTable, c.email)
       IN /\ users # {}
          /\ \E resetToken \in 1..uuidCount :
                Settle(p,
                   [c EXCEPT !.pc = "fp_delete",
                             !.userId = (CHOOSE u \in users : TRUE).id,
                             !.token = resetToken,
                             !.expiresAt = now + TokenLifetimeHours])
    /\ StoreUnchanged /\ EnvUnchanged
    /\ UNCHANGED <<cookieStore, ncalls, hist>>

\* line 220: delete the user's earlier tokens
forgotPassword_delete(p) ==
    /\ At(p, "forgotPassword", "fp_delete")
    /\ LET c == calls[p] IN
       \E fault \in BOOLEAN :
         IF fault
         THEN /\ Settle(p, Faulted(c, ForgotUnexpected))
              /\ UNCHANGED passwordResetTokensTable
         ELSE /\ passwordResetTokensTable' =
                     DeleteUserTokens(passwordResetTokensTable, c.userId)
              /\ Settle(p, [c EXCEPT !.pc = "fp_insert", !.deleted = TRUE])
    /\ EnvUnchanged
    /\ UNCHANGED <<usersTable, nextUserId, uuidCount, cookieStore, ncalls, hist>>

\* lines 222-234: insert the new token; without a configured sender the
\* action returns here
forgotPassword_insert(p) ==
    /\ At(p, "forgotPassword", "fp_insert")
    /\ LET row == [token |-> calls[p].token, userId |-> calls[p].userId,
                   expiresAt |-> calls[p].expiresAt]
           c == [calls[p] EXCEPT
                    !.late = \E r \in passwordResetTokensTable : r.token = row.token] IN
       \E fault \in BOOLEAN :
         IF fault \/ TokenInsertRefused(passwordResetTokensTable, row)
         THEN /\ Settle(p, Faulted(c, ForgotUnexpected))
              /\ UNCHANGED <<passwordResetTokensTable, hist>>
         ELSE /\ passwordResetTokensTable' = passwordResetTokensTable \cup {row}
              /\ IF senderEmail
                 THEN /\ Settle(p, [c EXCEPT !.pc = "fp_send"])
                      /\ UNCHANGED hist
                 ELSE /\ Settle(p,
                             Done([c EXCEPT !.sent = "unconfigured",
                                            !.check = TokenRowsCase(
                                                         passwordResetTokensTable', c)],
                                  GenericMessage))
                      /\ hist' = Issued(hist, c)
    /\ EnvUnchanged
    /\ UNCHANGED <<usersTable, nextUserId, uuidCount, cookieStore, ncalls>>

\* lines 238-258: the sender answers, answers with an error, or throws; each
\* is logged and the same message is returned
forgotPassword_send(p) ==
    /\ At(p, "forgotPassword", "fp_send")
    /\ \E outcome \in {"sent", "error", "throw"} :
         Settle(p, Done([calls[p] EXCEPT
                            !.sent = outcome,
                            !.check = TokenRowsCase(passwordResetTokensTable, calls[p])],
                        GenericMessage))
    /\ hist' = Issued(hist, calls[p])
    /\ StoreUnchanged /\ EnvUnchanged
    /\ UNCHANGED <<cookieStore, ncalls>>

\* --------------------------------------------------------- resetPassword
\* lines 267-276
resetPassword_validate(p) ==
    /\ FreeSlot(p)
    /\ \E token \in TokenInputs(uuidCount), password \in PasswordInputs, confirmPassword \in PasswordInputs :
         LET case == ResetInputCase(token, password, confirmPassword)
             c == [Start("resetPassword", "rp_token") EXCEPT
                      !.token = token, !.password = password,
                      !.late = (token \in Uuids /\ hist.resetOk[token] > 0),
                      !.stale = (token \in hist.superseded),
                      !.check = case]
         IN Settle(p,
                IF resetPasswordSchema(token, password, confirmPassword) THEN c
                ELSE Done([Start("resetPassword", "rp_token") EXCEPT !.check = case],
                          ValidationError))
    /\ ncalls' = ncalls + 1
    /\ StoreUnchanged /\ EnvUnchanged
    /\ UNCHANGED <<cookieStore, hist>>

\* lines 279-293: the token row that is not yet expired
resetPassword_select_token(p) ==
    /\ At(p, "resetPassword", "rp_token")
    /\ LET c == [calls[p] EXCEPT
                    !.check = TokenCase(passwordResetTokensTable, calls[p].token, now)]
           tokens == SelectValidToken(passwordResetTokensTable, c.token, now)
       IN \E fault \in BOOLEAN :
            Settle(p,
               IF fault THEN Faulted(calls[p], ResetUnexpected)
               ELSE IF tokens = {} THEN Done(c, InvalidToken)
               ELSE [c EXCEPT !.pc = "rp_user",
                              !.userId = (CHOOSE r \in tokens : TRUE).userId])
    /\ StoreUnchanged /\ EnvUnchanged
    /\ UNCHANGED <<cookieStore, ncalls, hist>>

\* lines 295-301: the token's owner
resetPassword_select_user(p) ==
    /\ At(p, "resetPassword", "rp_user")
    /\ LET c == calls[p] IN
       \E fault \in BOOLEAN :
         Settle(p,
            IF fault THEN Faulted(c, ResetUnexpected)
            ELSE IF SelectById(usersTable, c.userId) = {} THEN Done(c, ResetUnexpected)
            ELSE [c EXCEPT !.pc = "rp_update"])
    /\ StoreUnchanged /\ EnvUnchanged
    /\ UNCHANGED <<cookieStore, ncalls, hist>>

\* lines 303-307: hash the new password and store it
resetPassword_update(p) ==
    /\ At(p, "resetPassword", "rp_update")
    /\ LET c == calls[p] IN
       \E fault \in BOOLEAN, salt \in Salts :
         IF fault
         THEN /\ Settle(p, Faulted(c, ResetUnexpected))
              /\ UNCHANGED usersTable
         ELSE /\ usersTable' = UpdatePassword(usersTable, c.userId, Hash(c.password, salt))
              /\ Settle(p, [c EXCEPT !.pc = "rp_delete", !.wrote = TRUE])
    /\ EnvUnchanged
    /\ UNCHANGED <<nextUserId, passwordResetTokensTable, uuidCount, cookieStore, ncalls, hist>>

\* lines 309-317: delete the token row and report success
resetPassword_delete(p) ==
    /\ At(p, "resetPassword", "rp_delete")
    /\ LET c == calls[p] IN
       \E fault \in BOOLEAN :
         IF fault
         THEN /\ Settle(p, Faulted(c, ResetUnexpected))
              /\ UNCHANGED <<passwordResetTokensTable, hist>>
         ELSE /\ passwordResetTokensTable' = DeleteToken(passwordResetTokensTable, c.token)
              /\ Settle(p, Done([c EXCEPT !.deleted = TRUE], ResetSuccess))
              /\ hist' = PasswordSet([hist EXCEPT !.resetOk[c.token] = @ + 1],
                                      c.userId, c.password)
    /\ EnvUnchanged
    /\ UNCHANGED <<usersTable, nextUserId, uuidCount, cookieStore, ncalls>>

\* an hour passes
Tick ==
    /\ now < MaxTime
    /\ now' = now + 1
    /\ StoreUnchanged
    /\ UNCHANGED <<senderEmail, cookieStore, calls, returned, ncalls, hist,
                   sessionsTable, nonceCount>>

NextReset ==
    \/ \E p \in Procs : forgotPassword_validate(p)
    \/ \E p \in Procs : forgotPassword_select(p)
    \/ \E p \in Procs : forgotPassword_delete(p)
    \/ \E p \in Procs : forgotPassword_insert(p)
    \/ \E p \in Procs : forgotPassword_send(p)
    \/ \E p \in Procs : resetPassword_validate(p)
    \/ \E p \in Procs : resetPassword_select_token(p)
    \/ \E p \in Procs : resetPassword_select_user(p)
    \/ \E p \in Procs : resetPassword_update(p)
    \/ \E p \in Procs : resetPassword_delete(p)
    \/ Tick

SpecReset == InitReset /\ [][NextReset]_vars

\* forgotPassword alone: requests for a reset link, none of them redeemed
NextForgot ==
    \/ \E p \in Procs : forgotPassword_validate(p)
    \/ \E p \in Procs : forgotPassword_select(p)
    \/ \E p \in Procs : forgotPassword_delete(p)
    \/ \E p \in Procs : forgotPassword_insert(p)
    \/ \E p \in Procs : forgotPassword_send(p)
    \/ Tick

SpecForgot == InitReset /\ [][NextForgot]_vars

\* forgotPassword for two accounts, with draws of uuidv4 that may repeat
NextTokens ==
    \/ \E p \in Procs : forgotPassword_validate(p)
    \/ \E p \in Procs : forgotPassword_select(p)
    \/ \E p \in Procs : forgotPassword_select_redraw(p)
    \/ \E p \in Procs : forgotPassword_delete(p)
    \/ \E p \in Procs : forgotPassword_insert(p)
    \/ \E p \in Procs : forgotPassword_send(p)
    \/ Tick

SpecTokens == InitSession /\ [][NextTokens]_vars

\* a deployment in which signup has created one account and nobody has
\* signed in with Google yet
InitOAuth ==
    /\ \E salt \in Salts :
         usersTable = {NewEmailUser(1, "ann@x.com", Hash("longenough1", salt))}
    /\ nextUserId = 2
    /\ passwordResetTokensTable = {}
    /\ uuidCount = 0
    /\ now = 0
    /\ senderEmail = TRUE
    /\ cookieStore = NoCookies
    /\ sessionsTable = {}
    /\ nonceCount = 0
    /\ calls = [p \in Procs |-> IdleCall]
    /\ returned = IdleCall
    /\ ncalls = 0
    /\ hist = PasswordSet(InitHist, 1, "longenough1")

\* ------------------------------------------------------ signInWithGoogle
\* lines 321-347: draw state and code verifier, build the URL (nothing is
\* passed to getAuthorizationUrl), set the two cookies, redirect.  The
\* redirect to the provider is called inside the try block; the catch
\* redirects to the signin page.
signInWithGoogle(p) ==
    /\ FreeSlot(p)
    /\ \E fault \in BOOLEAN :
         IF fault
         THEN /\ Settle(p, Faulted(Start("signInWithGoogle", "done"),
                                   Redirected(GoogleFailedUrl)))
              /\ hist' = InitiateInvoked(hist)
              /\ UNCHANGED <<cookieStore, nonceCount>>
         ELSE LET state == Nonce(nonceCount + 1)
                  codeVerifier == Nonce(nonceCount + 2)
                  urlState == Nonce(nonceCount + 3)
              IN /\ cookieStore' = SetOAuthCookies(cookieStore, state, codeVerifier)
                 /\ hist' = UrlIssued(InitiateSet(hist, state, codeVerifier),
                                      codeVerifier, UrlChallenge(codeVerifier))
                 /\ nonceCount' = nonceCount + 3
                 /\ Settle(p,
                       Done([Start("signInWithGoogle", "done") EXCEPT
                                !.state = state, !.urlState = urlState,
                                !.challenge = UrlChallenge(codeVerifier)],
                            TryRedirect(AuthorizationUrl, Redirected(GoogleFailedUrl))))
    /\ ncalls' = ncalls + 1
    /\ StoreUnchanged
    /\ UNCHANGED <<now, senderEmail, sessionsTable>>

\* --------------------------------------------- handleGoogleOAuthCallback
\* lines 349-358: the query's code and state, the request's two cookies, and
\* the check of line 355; a refused callback returns before the cookie
\* deletes of lines 360-361
handleGoogleOAuthCallback_validate(p) ==
    /\ FreeSlot(p)
    /\ \E code \in CodeInputs, state \in StateInputs(cookieStore, nonceCount) :
         LET storedState == cookieStore.google_oauth_state
             storedCodeVerifier == cookieStore.google_code_verifier
             c == [Start("handleGoogleOAuthCallback", "cb_exchange") EXCEPT
                      !.code = code, !.state = state,
                      !.storedState = storedState,
                      !.storedCodeVerifier = storedCodeVerifier,
                      !.late = <<code, state>> \in hist.passed,
                      !.stale = <<code, state>> \in hist.passedDone,
                      !.revoked = state \in hist.earlier]
         IN IF StateValid(code, state, storedState, storedCodeVerifier)
            THEN /\ Settle(p, c)
                 /\ hist' = CallbackPassed(hist, c)
            ELSE /\ Settle(p, Done(c, StateMismatch))
                 /\ UNCHANGED hist
    /\ ncalls' = ncalls + 1
    /\ StoreUnchanged /\ EnvUnchanged
    /\ UNCHANGED cookieStore

\* lines 360-383 and, for a known subject id, 411-423: the provider answers
\* with a profile or throws; the user is looked up by provider_id alone.  The
\* cookie deletes of lines 360-361 travel in the response of a callback that
\* passed line 355: the browser applies them when the response arrives.
handleGoogleOAuthCallback_exchange(p) ==
    /\ At(p, "handleGoogleOAuthCallback", "cb_exchange")
    /\ \E answered \in BOOLEAN, googleId \in Subs, userEmail \in ProfileEmails,
          fault \in {"none", "select", "session"} :
         LET c == [calls[p] EXCEPT
                      !.called = TRUE,
                      !.verifier = ExchangeVerifier(calls[p].storedCodeVerifier)]
             existingUser == SelectByProviderId(usersTable, googleId)
             cc == [c EXCEPT !.sub = googleId, !.email = userEmail,
                             !.check = IF \E u \in usersTable : u.provider_id = googleId
                                       THEN "known" ELSE "new"]
             jar == DeleteOAuthCookies(cookieStore)
         IN IF ~answered
            THEN /\ Settle(p, Done(c, CallbackFailed))
                 /\ cookieStore' = jar
                 /\ UNCHANGED sessionsTable
            ELSE IF NoEmail(userEmail)
            THEN /\ Settle(p, Done(cc, EmailMissing))
                 /\ cookieStore' = jar
                 /\ UNCHANGED sessionsTable
            ELSE IF fault = "select"
            THEN /\ Settle(p, Faulted(cc, CallbackFailed))
                 /\ cookieStore' = jar
                 /\ UNCHANGED sessionsTable
            ELSE IF existingUser = {}
            THEN /\ Settle(p, [cc EXCEPT !.pc = "cb_create"])
                 /\ UNCHANGED <<cookieStore, sessionsTable>>
            ELSE IF fault = "session"
            THEN /\ Settle(p, Faulted(cc, CallbackFailed))
                 /\ cookieStore' = jar
                 /\ UNCHANGED sessionsTable
            ELSE LET dbUserId == (CHOOSE u \in existingUser : TRUE).id
                     session == NewSession(sessionsTable, dbUserId)
                 IN /\ sessionsTable' = sessionsTable \cup {session}
                    /\ cookieStore' = SetSessionCookie(jar, session.id)
                    /\ Settle(p, Done([cc EXCEPT !.cookie = session.id],
                                      CallbackSuccess(dbUserId)))
    /\ hist' = IF Free(p)' THEN CallbackReturned(hist, calls[p]) ELSE hist
    /\ StoreUnchanged
    /\ UNCHANGED <<now, senderEmail, nonceCount, ncalls>>

\* lines 385-423 for a subject id that no user had at the lookup:
\* auth.createUser throws, or the unique indexes refuse the row (the identity
\* column has drawn its value by then), or the user is created and the session
\* is made
handleGoogleOAuthCallback_create(p) ==
    /\ At(p, "handleGoogleOAuthCallback", "cb_create")
    /\ \E fault \in {"none", "create", "session"} :
         LET row == NewGoogleUser(nextUserId, calls[p].email, calls[p].sub)
             c == [calls[p] EXCEPT
                      !.check = IF \E u \in usersTable :
                                      u.email = row.email /\ u.provider_id # row.provider_id
                                THEN "conflict" ELSE "free"]
             jar == DeleteOAuthCookies(cookieStore)
         IN IF fault = "create"
            THEN /\ Settle(p, Faulted(c, DatabaseError))
                 /\ cookieStore' = jar
                 /\ UNCHANGED <<usersTable, nextUserId, sessionsTable>>
            ELSE IF InsertRefused(usersTable, row)
            THEN /\ Settle(p, Done(c, DatabaseError))
                 /\ cookieStore' = jar
                 /\ nextUserId' = nextUserId + 1
                 /\ UNCHANGED <<usersTable, sessionsTable>>
            ELSE /\ usersTable' = usersTable \cup {row}
                 /\ nextUserId' = nextUserId + 1
                 /\ IF fault = "session"
                    THEN /\ Settle(p, Faulted([c EXCEPT !.wrote = TRUE], CallbackFailed))
                         /\ cookieStore' = jar
                         /\ UNCHANGED sessionsTable
                    ELSE LET session == NewSession(sessionsTable, row.id)
                         IN /\ sessionsTable' = sessionsTable \cup {session}
                            /\ cookieStore' = SetSessionCookie(jar, session.id)
                            /\ Settle(p, Done([c EXCEPT !.wrote = TRUE,
                                                        !.cookie = session.id],
                                              CallbackSuccess(row.id)))
    /\ hist' = CallbackReturned(hist, calls[p])
    /\ UNCHANGED <<passwordResetTokensTable, uuidCount, now, senderEmail, nonceCount,
                   ncalls>>

NextOAuth ==
    \/ \E p \in Procs : signInWithGoogle(p)
    \/ \E p \in Procs : handleGoogleOAuthCallback_validate(p)
    \/ \E p \in Procs : handleGoogleOAuthCallback_exchange(p)
    \/ \E p \in Procs : handleGoogleOAuthCallback_create(p)

SpecOAuth == InitOAuth /\ [][NextOAuth]_vars

\* resets of the password, and signins with the old and the new one
NextCredential ==
    \/ \E p \in Procs : forgotPassword_validate(p)
    \/ \E p \in Procs : forgotPassword_select(p)
    \/ \E p \in Procs : forgotPassword_delete(p)
    \/ \E p \in Procs : forgotPassword_insert(p)
    \/ \E p \in Procs : forgotPassword_send(p)
    \/ \E p \in Procs : resetPassword_validate(p)
    \/ \E p \in Procs : resetPassword_select_token(p)
    \/ \E p \in Procs : resetPassword_select_user(p)
    \/ \E p \in Procs : resetPassword_update(p)
    \/ \E p \in Procs : resetPassword_delete(p)
    \/ \E p \in Procs : signin_validate(p)
    \/ \E p \in Procs : signin_select(p)
    \/ \E p \in Procs : signin_set_cookie(p)

SpecCredential == InitReset /\ [][NextCredential]_vars

\* the same requests with an email account and a Google account in the table
SpecProvider == InitSession /\ [][NextCredential]_vars

\* a deployment in which signup has created one account, for the email
\* Bob@x.com as its owner typed it (z.string().email() accepts capitals and
\* signup stores the email unchanged)
InitCase ==
    /\ \E salt \in Salts :
         usersTable = {NewEmailUser(1, "Bob@x.com", Hash("longenough1", salt))}
    /\ nextUserId = 2
    /\ passwordResetTokensTable = {}
    /\ uuidCount = 0
    /\ now = 0
    /\ senderEmail = TRUE
    /\ cookieStore = NoCookies
    /\ sessionsTable = {}
    /\ nonceCount = 0
    /\ calls = [p \in Procs |-> IdleCall]
    /\ returned = IdleCall
    /\ ncalls = 0
    /\ hist = PasswordSet(InitHist, 1, "longenough1")

\* the three actions that look a user up by email
NextCase ==
    \/ \E p \in Procs : signup_validate(p)
    \/ \E p \in Procs : signup_select(p)
    \/ \E p \in Procs : signup_insert(p)
    \/ \E p \in Procs : signin_validate(p)
    \/ \E p \in Procs : signin_select(p)
    \/ \E p \in Procs : signin_set_cookie(p)
    \/ \E p \in Procs : forgotPassword_validate(p)
    \/ \E p \in Procs : forgotPassword_select(p)
    \/ \E p \in Procs : forgotPassword_delete(p)
    \/ \E p \in Procs : forgotPassword_insert(p)
    \/ \E p \in Procs : forgotPassword_send(p)

SpecCase == InitCase /\ [][NextCase]_vars

\* the two actions that wait for a party outside the program
NextLive ==
    \/ \E p \in Procs : forgotPassword_validate(p)
    \/ \E p \in Procs : forgotPassword_select(p)
    \/ \E p \in Procs : forgotPassword_delete(p)
    \/ \E p \in Procs : forgotPassword_insert(p)
    \/ \E p \in Procs : forgotPassword_send(p)
    \/ \E p \in Procs : signInWithGoogle(p)
    \/ \E p \in Procs : handleGoogleOAuthCallback_validate(p)
    \/ \E p \in Procs : handleGoogleOAuthCallback_exchange(p)
    \/ \E p \in Procs : handleGoogleOAuthCallback_create(p)

\* A store operation answers or throws, and the runtime then resumes the
\* request that awaits it: the steps that wait for the store alone are
\* weakly fair.  resend.emails.send (line 240) and
\* googleOAuth.validateCallback (line 365) are awaited without a timeout, and
\* nothing in the program makes the sender or the provider answer: the steps
\* that wait for them have no fairness.
FairLive ==
    /\ WF_vars(\E p \in Procs : forgotPassword_select(p))
    /\ WF_vars(\E p \in Procs : forgotPassword_delete(p))
    /\ WF_vars(\E p \in Procs : forgotPassword_insert(p))
    /\ WF_vars(\E p \in Procs : handleGoogleOAuthCallback_create(p))

SpecLive == InitOAuth /\ [][NextLive]_vars /\ FairLive

\* every action that writes a user row: signup, the Google callback, and
\* resetPassword with the forgotPassword that issues its token
NextUsers ==
    \/ \E p \in Procs : signup_validate(p)
    \/ \E p \in Procs : signup_select(p)
    \/ \E p \in Procs : signup_insert(p)
    \/ \E p \in Procs : signInWithGoogle(p)
    \/ \E p \in Procs : handleGoogleOAuthCallback_validate(p)
    \/ \E p \in Procs : handleGoogleOAuthCallback_exchange(p)
    \/ \E p \in Procs : handleGoogleOAuthCallback_create(p)
    \/ \E p \in Procs : forgotPassword_validate(p)
    \/ \E p \in Procs : forgotPassword_select(p)
    \/ \E p \in Procs : forgotPassword_delete(p)
    \/ \E p \in Procs : forgotPassword_insert(p)
    \/ \E p \in Procs : forgotPassword_send(p)
    \/ \E p \in Procs : resetPassword_validate(p)
    \/ \E p \in Procs : resetPassword_select_token(p)
    \/ \E p \in Procs : resetPassword_select_user(p)
    \/ \E p \in Procs : resetPassword_update(p)
    \/ \E p \in Procs : resetPassword_delete(p)

SpecUsers == InitOAuth /\ [][NextUsers]_vars

\* ================================================================ claims
PassedValidation(c) == c.res # ValidationError

\* the response last delivered is that of a call of op
Returned(op) == returned.op = op /\ returned.pc = "done"

\* C1: among the signup calls for one email that no user had, exactly one
\* returns success: no email has two successful signups, every signup for it
\* that returned without a store fault returned with one success on record,
\* and no two user rows have the same email.
C1_OneSignupSucceeds ==
    /\ \A u, v \in usersTable : u.email = v.email => u = v
    /\ \A e \in DOMAIN hist.signupOk : hist.signupOk[e] <= 1
    /\ (Returned("signup") /\ PassedValidation(returned) /\ ~returned.fault)
          => hist.signupOk[returned.email] = 1

\* of two concurrent signups for one email that both passed the pre-check,
\* one inserted and the other has been refused by the unique index
C1_Witness ==
    /\ Returned("signup")
    /\ returned.res = SignupUnexpected /\ ~returned.fault
    /\ hist.signupOk[returned.email] = 1

\* C2: a signup whose email belongs to a user (at its pre-check, or at its
\* insert after losing a race) fails with the duplicate-email error on the
\* email field.
C2_DuplicateIsEmailError ==
    (Returned("signup") /\ PassedValidation(returned) /\ ~returned.fault
       /\ ~returned.res.success)
       => returned.res = EmailExists

\* C3: getCurrentUser returns user U only for a cookie value that an earlier
\* successful signin for U issued.
C3_SessionWasIssued ==
    Returned("getCurrentUser")
       => \A u \in returned.res.user : <<returned.cookie, u.id>> \in hist.issued

\* C4: a signin whose credential check passed sets the session cookie for the
\* user and ends in the redirect to the dashboard, never in a failure result.
C4_SigninRedirects ==
    (Returned("signin") /\ returned.cookie # NoCookie)
       => /\ \E u \in SelectByEmail(usersTable, returned.email) :
                returned.cookie = toString(u.id)
          /\ returned.res = Redirected("/dashboard")

\* what holds of a resetPassword call c whose token can no longer be used: it
\* has changed no hash and has not succeeded, and unless the store faulted
\* under it, it has failed with the invalid-or-expired-token error
Rejected(c) ==
    /\ ~c.wrote
    /\ ~c.res.success
    /\ (c.pc = "done" /\ PassedValidation(c) /\ ~c.fault) => c.res = InvalidToken

\* C5: a resetPassword invoked after a resetPassword with the same token has
\* returned success never changes a password hash and never succeeds; unless
\* the store faults under it, it fails with the invalid-or-expired-token error.
C5_ConsumedTokenRejected ==
    \A c \in {calls[p] : p \in Procs} \cup {returned} :
       (c.op = "resetPassword" /\ c.late) => Rejected(c)

\* a second reset with an already consumed token has been answered
C5_Witness ==
    /\ Returned("resetPassword") /\ returned.late
    /\ returned.res = InvalidToken

\* C6: one token yields at most one successful resetPassword.
C6_OneSuccessPerToken == \A t \in Uuids : hist.resetOk[t] <= 1

\* C7: each user has at most one unexpired reset-token row.
C7_OneValidTokenPerUser ==
    \A u \in usersTable :
       Cardinality({r \in passwordResetTokensTable :
                       r.userId = u.id /\ r.expiresAt > now}) <= 1

\* C8: once two forgotPassword calls for one user have completed in sequence,
\* a resetPassword invoked with the first call's token never changes a hash
\* and never succeeds; unless the store faults under it, it fails with the
\* invalid-or-expired-token error.
C8_SupersededTokenRejected ==
    \A c \in {calls[p] : p \in Procs} \cup {returned} :
       (c.op = "resetPassword" /\ c.stale) => Rejected(c)

\* the first token is refused within the hour in which it was issued
C8_Witness ==
    /\ Returned("resetPassword") /\ returned.stale
    /\ returned.res = InvalidToken
    /\ now < TokenLifetimeHours

\* C9: when a resetPassword has returned, it removed its token row if and
\* only if it changed the password hash.
C9_ConsumedIffChanged ==
    Returned("resetPassword") => (returned.deleted <=> returned.wrote)

\* C10: for a valid email forgotPassword returns the generic message, with or
\* without an account, and whatever the email sender does.
C10_GenericMessage ==
    (Returned("forgotPassword") /\ PassedValidation(returned) /\ ~returned.fault)
       => returned.res = GenericMessage

\* a call for an email without an account has been answered after a call for
\* an account, whose token was stored, was
C10_Witness ==
    /\ Returned("forgotPassword")
    /\ IsEmail(returned.email) /\ SelectByEmail(usersTable, returned.email) = {}
    /\ ~returned.fault
    /\ hist.issuedDone # {}

\* C11: signin returns one and the same failure, and sets no session cookie,
\* when no user has the email, when the user has no password hash, and when
\* the user's hash was made from another password.
C11_SameFailure ==
    (Returned("signin") /\ returned.check \in {"nouser", "nohash", "mismatch"})
       => /\ returned.res = InvalidCredentials
          /\ returned.cookie = NoCookie

\* a signin for the account that the Google callback created has been refused
C11_Witness ==
    /\ Returned("signin") /\ returned.check = "nohash"
    /\ returned.email = "bob@x.com"
    /\ returned.res = InvalidCredentials

\* C12: a signin that ran with no other request in flight passed its credential
\* check if and only if its password was the one most recently set for the
\* user, by signup or by the last resetPassword that returned success.
C12_LastPasswordOnly ==
    (Returned("signin") /\ returned.check # "" /\ returned.oracle # "none")
       => (returned.cookie # NoCookie <=> returned.oracle = "pass")

\* C13: a getCurrentUser that presents a session cookie value which a completed
\* signout removed from the browser, and which no signin has issued again,
\* returns null.
C13_SignedOutTokenRejected ==
    (Returned("getCurrentUser") /\ returned.revoked) => returned.res.user = NoUser

Callback == "handleGoogleOAuthCallback"

\* C14: a callback whose query has no code or no state, whose request has no
\* state cookie, or whose state differs from the cookie, returns the
\* state-mismatch failure and has made no call to the identity provider.
C14_RejectedBeforeProvider ==
    (Returned(Callback)
       /\ (returned.code = "" \/ returned.state = NoCookie
              \/ returned.storedState = NoCookie
              \/ returned.state # returned.storedState))
       => /\ ~returned.called
          /\ returned.res = StateMismatch

\* a callback with a code whose state is not the one in the browser's state
\* cookie has been refused
C14_Witness ==
    /\ Returned(Callback)
    /\ returned.code # "" /\ returned.state # NoCookie
    /\ returned.storedState # NoCookie /\ returned.state # returned.storedState
    /\ ~returned.called

\* C15: when a callback has returned, the browser holds neither the
\* google_oauth_state cookie nor the google_code_verifier cookie.
C15_TransientCookiesDeleted ==
    Returned(Callback)
       => /\ cookieStore.google_oauth_state = NoCookie
          /\ cookieStore.google_code_verifier = NoCookie

\* C16: the state in the authorization URL of a signInWithGoogle that set its
\* cookies is the value of the google_oauth_state cookie it set.
C16_UrlStateIsCookieState ==
    (Returned("signInWithGoogle") /\ ~returned.fault)
       => /\ returned.state = cookieStore.google_oauth_state
          /\ returned.urlState = cookieStore.google_oauth_state

\* C17: a signInWithGoogle in which nothing failed ends in the redirect to the
\* provider's authorization URL.
C17_RedirectsToProvider ==
    (Returned("signInWithGoogle") /\ ~returned.fault)
       => returned.res = Redirected(AuthorizationUrl)

\* C18: with the cookies a successful callback for user U left in the browser,
\* getCurrentUser returns U and the middleware lets a request for /dashboard
\* through.
C18_SessionHonoured ==
    (Returned(Callback) /\ returned.res.success
       /\ cookieStore.auth_session = returned.cookie)
       => /\ CurrentUserOf(cookieStore, usersTable)
                = SelectById(usersTable, returned.res.userId)
          /\ middleware(<<"/dashboard">>, cookieStore) = NextResponse

\* C19: no two users share a provider id; a callback that succeeded, or that
\* lost the race for a new subject id to a concurrent callback, leaves
\* exactly one user with its subject id.
C19_OneUserPerSubject ==
    /\ \A u, v \in usersTable :
          (u.provider_id # "" /\ u.provider_id = v.provider_id) => u = v
    /\ (Returned(Callback)
          /\ (returned.res.success
                 \/ (returned.res = DatabaseError /\ ~returned.fault
                       /\ returned.check = "free")))
          => Cardinality(SelectByProviderId(usersTable, returned.sub)) = 1

\* of two concurrent callbacks for one new subject id that both found no
\* user, one created the user and the other has been refused by the unique
\* index
C19_Witness ==
    /\ Returned(Callback)
    /\ returned.res = DatabaseError /\ ~returned.fault /\ returned.check = "free"
    /\ Cardinality(SelectByProviderId(usersTable, returned.sub)) = 1

\* C20: a callback for a subject id no user has, whose profile email is
\* another user's email, fails: it inserts no user, makes no session, and the
\* user with that email has not been given the subject id; no two users have
\* the same email.
C20_EmailCollisionFails ==
    /\ \A u, v \in usersTable : u.email = v.email => u = v
    /\ (Returned(Callback) /\ returned.check = "conflict")
          => /\ ~returned.res.success
             /\ ~returned.wrote
             /\ returned.cookie = NoCookie
             /\ \A u \in SelectByEmail(usersTable, returned.email) :
                   u.provider_id # returned.sub

\* a callback with a new subject id and the email of the account that signup
\* created has been refused, and that account is as signup made it
C20_Witness ==
    /\ Returned(Callback) /\ returned.check = "conflict"
    /\ returned.res = DatabaseError /\ ~returned.fault
    /\ \E salt \in Salts :
          NewEmailUser(1, "ann@x.com", Hash("longenough1", salt)) \in usersTable
    /\ returned.email = "ann@x.com"

\* C21: a callback that found a user with the profile's subject id when it
\* looked the user up, and under which nothing threw, succeeds for that very
\* user and inserts none, whatever the profile's email; every callback that
\* succeeds returns a user whose provider id is the profile's subject id.
C21_ResolvedBySubjectOnly ==
    /\ (Returned(Callback) /\ returned.res.success)
          => \E u \in usersTable :
                u.id = returned.res.userId /\ u.provider_id = returned.sub
    /\ (Returned(Callback) /\ returned.check = "known" /\ returned.email # ""
          /\ ~returned.fault)
          => returned.res.success /\ ~returned.wrote

\* a second callback for the same subject id, with another email in the
\* profile, has signed in the user the first one created; the email of the
\* profile belongs to the account signup created
C21_Witness ==
    /\ Returned(Callback) /\ returned.check = "known" /\ returned.res.success
    /\ returned.email = "ann@x.com"
    /\ \E u \in usersTable :
          /\ u.id = returned.res.userId /\ u.provider_id = returned.sub
          /\ u.email # returned.email

\* C22: a callback whose profile has no email returns the missing-email
\* failure, inserts no user and makes no session, also when a user with the
\* profile's subject id exists.
C22_NoEmailFails ==
    (Returned(Callback) /\ returned.sub # "" /\ returned.email = "")
       => /\ returned.res = EmailMissing
          /\ ~returned.wrote
          /\ returned.cookie = NoCookie

\* a profile without email has been refused for a subject id that a user has
C22_Witness ==
    /\ Returned(Callback) /\ returned.sub # "" /\ returned.email = ""
    /\ returned.check = "known"
    /\ returned.res = EmailMissing

\* C23: a request whose path is a protected prefix or lies below one, and
\* that carries no session cookie, is answered with the redirect to /signin
\* whose callbackUrl is the path; every other request goes through.
C23_GuardsProtectedPaths ==
    Returned("middleware")
       => returned.response =
             IF (\E route \in protectedRoutes : StartsWith(returned.pathname, route))
                  /\ returned.cookie = NoCookie
             THEN RedirectResponse("/signin", returned.pathname)
             ELSE NextResponse

\* C24: a resetPassword whose token, when it is looked up, is in no row, or
\* only in rows that expire at that very time or expired before, changes no
\* hash and fails with the one invalid-or-expired-token error; a token in a
\* row that expires later is never refused with that error.
C24_AcceptedIffUnexpired ==
    \A c \in {calls[p] : p \in Procs} \cup {returned} :
       c.op = "resetPassword"
          => /\ c.check \in {"absent", "due", "expired"}
                   => (Rejected(c) /\ c.pc = "done" /\ c.res = InvalidToken)
             /\ c.check = "valid" => c.res # InvalidToken

\* a token presented at the very time it expires has been refused
C24_Witness ==
    /\ Returned("resetPassword") /\ returned.check = "due"
    /\ returned.res = InvalidToken
    /\ \E r \in passwordResetTokensTable : r.expiresAt = now

\* C25: every user with provider email has a password hash, and every user
\* with provider google has a provider id that no other user has.
C25_ProviderInvariant ==
    \A u \in usersTable :
       /\ u.provider = "email" => u.hashed_password # NullHash
       /\ u.provider = "google"
             => /\ u.provider_id # ""
                /\ \A v \in usersTable : v.provider_id = u.provider_id => v = u

\* users of both kinds exist: one made by signup in this behaviour and one
\* made by the Google callback, beside the account that was there before
C25_Witness ==
    /\ \E u \in usersTable : u.provider = "google"
    /\ \E u \in usersTable : u.provider = "email" /\ u.id > 1

\* C26: no action ends by raising: whatever failed under it, a call that has
\* ended has returned a value.
C26_NoFaultEscapes == returned.pc = "done" => returned.res # Raised

\* the emails that occur, in lower case
LowerCase(e) == IF e = "Bob@x.com" THEN "bob@x.com" ELSE e

\* the users whose email differs from e at most in letter case
SelectIgnoringCase(rows, e) == {u \in rows : LowerCase(u.email) = LowerCase(e)}

\* C27: given an email that differs at most in letter case from a user's
\* email, signin does not answer as for an unknown email, signup's pre-check
\* reports the email as taken, and forgotPassword stores a token.
C27_LookupIgnoresCase ==
    (returned.pc = "done" /\ PassedValidation(returned) /\ ~returned.fault
       /\ SelectIgnoringCase(usersTable \ {u \in usersTable : u.id = returned.res.userId},
                             returned.email) # {})
       => /\ returned.op = "signin" => returned.check # "nouser"
          /\ returned.op = "signup" => returned.res = EmailExists
          /\ returned.op = "forgotPassword" => returned.sent # "none"

\* C28: every forgotPassword and every Google callback that is in flight
\* eventually returns.
C28_EventuallyReturns ==
    \A p \in Procs :
       (calls[p].op \in {"forgotPassword", Callback}) ~> Free(p)

\* a Google callback c fell at line 355: the state-mismatch failure, with no
\* call of the provider
RefusedAtState(c) == c.pc = "done" /\ c.res = StateMismatch /\ ~c.called

\* C29 as stated: a callback carrying the code and state of a callback that
\* has passed the state check, with no signInWithGoogle invoked in between, is
\* refused with the state-mismatch failure before any provider call, whether
\* or not the first callback has returned by then.
C29_ReplayRefusedOncePassed ==
    \A c \in {calls[p] : p \in Procs} \cup {returned} :
       (c.op = Callback /\ c.late) => RefusedAtState(c)

\* C29, amended: a callback carrying the code and state of a callback that
\* passed the state check and has returned, with no signInWithGoogle invoked
\* in between, is refused with the state-mismatch failure before any provider
\* call.
C29_ReplayRefusedOnceReturned ==
    \A c \in {calls[p] : p \in Procs} \cup {returned} :
       (c.op = Callback /\ c.stale) => RefusedAtState(c)

\* a callback repeated the code and state of a finished callback, and was
\* refused
C29_Witness ==
    /\ Returned(Callback) /\ returned.stale
    /\ returned.code # "" /\ returned.state # NoCookie
    /\ RefusedAtState(returned)

\* C30: the two cookies hold nothing but the values of the most recent
\* signInWithGoogle that set them, and a callback carrying the state of an
\* earlier initiate is refused with the state-mismatch failure before any
\* provider call.
C30_LatestInitiateOnly ==
    /\ cookieStore.google_oauth_state \in {NoCookie, hist.latest[1]}
    /\ cookieStore.google_code_verifier \in {NoCookie, hist.latest[2]}
    /\ \A c \in {calls[p] : p \in Procs} \cup {returned} :
          (c.op = Callback /\ c.revoked) => RefusedAtState(c)

\* after a second initiate, a callback came with the first initiate's state
\* and a code while the cookies of the second were in place, and was refused
C30_Witness ==
    /\ Returned(Callback) /\ returned.revoked
    /\ returned.code # "" /\ returned.storedState = hist.latest[1]
    /\ returned.storedCodeVerifier = hist.latest[2]
    /\ returned.storedState # NoCookie
    /\ RefusedAtState(returned)

\* the PKCE challenge derived from a code verifier
S256(v) == <<"S256">> \o v

\* C31: a callback that called the provider gave it the code verifier of the
\* google_code_verifier cookie, and the authorization URL of the
\* signInWithGoogle that set this cookie carried the challenge derived from
\* that verifier.
C31_ExchangePresentsVerifier ==
    \A c \in {calls[p] : p \in Procs} \cup {returned} :
       (c.op = Callback /\ c.called)
          => /\ c.verifier = c.storedCodeVerifier
             /\ <<c.storedCodeVerifier, S256(c.storedCodeVerifier)>> \in hist.urls

\* C32: when a forgotPassword for a user has stored its token and returned,
\* with no store fault under it, the user's only token row is the one it
\* stored: the new token with the expiry of one hour after its issuance.
C32_OneRowAfterForgot ==
    (Returned("forgotPassword") /\ ~returned.fault /\ returned.sent # "none")
       => returned.check = "exact"

\* C33: a forgotPassword for a well-formed email that no user has, once it has
\* returned, has run no delete and no insert on the token table, has written
\* no user, and has not called the email sender.
C33_NoUserNoEffect ==
    (Returned("forgotPassword") /\ IsEmail(returned.email)
       /\ \A u \in usersTable : u.email # returned.email)
       => /\ ~returned.deleted /\ ~returned.wrote
          /\ returned.sent = "none"

\* a call for an email without an account returned the generic message while
\* the table held the token of an account, and left it there
C33_Witness ==
    /\ Returned("forgotPassword") /\ returned.email = "bob@x.com"
    /\ returned.res = ForgotNoUserResult /\ ~returned.fault
    /\ \A u \in usersTable : u.email # "bob@x.com"
    /\ passwordResetTokensTable # {}
    /\ ~returned.deleted /\ returned.sent = "none"

\* C34: a resetPassword whose token is malformed, whose two passwords differ,
\* or whose token, when it is looked up, is in no row or only in rows that
\* have expired, has returned a failure, has changed no password hash and has
\* deleted no token row.
C34_FailedResetChangesNothing ==
    \A c \in {calls[p] : p \in Procs} \cup {returned} :
       (c.op = "resetPassword"
          /\ c.check \in {"malformed", "mismatch", "absent", "due", "expired"})
          => /\ c.pc = "done" /\ ~c.res.success
             /\ ~c.wrote /\ ~c.deleted

\* a form with two long passwords that differ was refused while the table
\* held a token row
C34_Witness ==
    /\ Returned("resetPassword") /\ returned.check = "mismatch"
    /\ returned.res = ValidationError
    /\ ~returned.wrote /\ ~returned.deleted
    /\ passwordResetTokensTable # {}

\* C35: a user with provider google has no password hash in any state, and no
\* signin finds the given password to match for the email of such a user.
C35_ProviderOnlyHasNoPassword ==
    /\ \A u \in usersTable : u.provider = "google" => u.hashed_password = NullHash
    /\ \A c \in {calls[p] : p \in Procs} \cup {returned} :
          (c.op = "signin"
             /\ \E u \in usersTable : u.email = c.email /\ u.provider = "google")
             => c.check # "match"

\* a session token as signin makes it: the decimal digits of a user id and
\* nothing else
IsSessionToken(s) == s # <<>> /\ \A i \in 1..Len(s) : IsDigit(s[i])

\* C36: getCurrentUser does not raise, and it returns null when the request
\* has no session cookie, when the cookie's value is not a well-formed session
\* token (a value that begins with digits and goes on with other characters
\* included), and when the value is the token of no user.
C36_NullForBadCookie ==
    Returned("getCurrentUser")
       => /\ returned.res # Raised
          /\ (\/ returned.cookie = NoCookie
              \/ ~IsSessionToken(returned.cookie)
              \/ \A u \in usersTable : toString(u.id) # returned.cookie)
                => returned.res = CurrentUser(NoUser)

\* C37: no step removes a user id or changes a user's email or any field but
\* the password hash, and the only step that changes a user's password hash is
\* the update of a resetPassword whose token is that user's.
C37_UsersOnlyGrow ==
    [][/\ \A u \in usersTable :
             \E v \in usersTable' :
                /\ v.id = u.id
                /\ v = [u EXCEPT !.hashed_password = v.hashed_password]
       /\ \A u \in usersTable \ usersTable' :
             \E p \in Procs :
                /\ calls[p].op = "resetPassword" /\ calls[p].userId = u.id
                /\ ~calls[p].wrote /\ calls'[p].wrote]_vars

\* a resetPassword has succeeded for one user while a user created later was
\* in the table with the password it was created with
C37_Witness ==
    /\ Returned("resetPassword") /\ returned.res = ResetSuccess /\ returned.wrote
    /\ \E u \in usersTable :
          /\ u.id = 1 /\ u.email = "ann@x.com"
          /\ u.hashed_password # NullHash /\ u.hashed_password[4] = "newpass123"
    /\ \E u \in usersTable :
          /\ u.id > 1 /\ u.provider = "email"
          /\ u.hashed_password # NullHash
          /\ <<u.id, u.hashed_password[4]>> \in hist.lastSet

\* C38: no two reset-token rows have the same token value, and a
\* forgotPassword whose token value was in the table when it came to insert
\* has been refused by the store: it has stored nothing and has returned the
\* form error.
C38_TokenValuesUnique ==
    /\ \A r1, r2 \in passwordResetTokensTable : r1.token = r2.token => r1 = r2
    /\ \A c \in {calls[p] : p \in Procs} \cup {returned} :
          (c.op = "forgotPassword" /\ c.late)
             => c.pc = "done" /\ c.fault /\ c.sent = "none"

====
